---- MODULE Spec2Model ----
(***************************************************************************)
(* XPRequest: the lifecycle of one client-side HTTP(S) request.            *)
(*                                                                         *)
(* The repository holds three historical variants of the same class:       *)
(*   part_000  submit/abort, tsSubmit.., _handleEnd classifies by status   *)
(*   part_002  send/abort, timeSend.., handleEnd with try/catch            *)
(*   part_003  as part_002, other notification names and payloads          *)
(* One request object is modelled; `variant` says which class built it.    *)
(* The fields keep the names of part_000 (tsSubmit is timeSend/timeSubmit, *)
(* chunks is _chunks, ...).                                                *)
(*                                                                         *)
(* External collaborators and how they are modelled:                       *)
(*  - the transport (http/https request handle): it can deliver its        *)
(*    error signal at any time, one response signal once the request was   *)
(*    written, and data/end signals once the response handler registered   *)
(*    them. Nothing in the class unregisters a handler, so every handler   *)
(*    stays callable after abort() and after completion.                   *)
(*  - the class framework (XP.Class accessors): an assignment runs the     *)
(*    property's `set`, then `validate`; a rejected value raises and the   *)
(*    rest of the calling method is skipped; an accepted value is stored   *)
(*    and `then` runs. Whether `then` runs when the stored value did not   *)
(*    change is not decided by this repository: both are possible.         *)
(*  - Date.now(): a clock that has advanced at every call or signal.       *)
(*                                                                         *)
(* Spec is one request under every order of calls and signals, LiveSpec    *)
(* one request with a transport that keeps its contract, PairSpec two      *)
(* requests of one class with their calls and signals interleaved.         *)
(***************************************************************************)
EXTENDS Integers, Sequences, FiniteSets, TLC

\* Bound on the number of calls and signals of one behaviour.
MaxEvents == 5

Variants == {"part_000", "part_002", "part_003"}

\* Values a field, a payload or an argument can hold.
Undefined == [tag |-> "undefined", val |-> ""]
Null == [tag |-> "null", val |-> ""]
Text(s) == [tag |-> "string", val |-> s]
Doc(s) == [tag |-> "object", val |-> s]
ErrorObject(s) == [tag |-> "Error", val |-> s]
Num(n) == [tag |-> "number", val |-> ToString(n)]

\* XP.isDefined / XP.isVoid
IsDefined(v) == v # Undefined
IsVoid(v) == v \in {Undefined, Null}
Populated(v) == ~IsVoid(v)

\* Inputs of the model
Fragments == {"{\"ok\":", "true}", "not found"}
StatusCodes == {200, 400, 404}
Bodies == {Undefined, Text("q=1")}
Messages == {"", "socket hang up"}
KnownMethods == {"GET", "POST"}
Methods == KnownMethods \cup {"BREW"}

\* The headers and url options handed to the constructor, by the type of
\* their value: well-formed options, headers that are a string, a url that
\* is a number.
PlainOptions == [headers |-> "object", url |-> "string"]
OptionSets ==
    {PlainOptions,
     [headers |-> "string", url |-> "string"],
     [headers |-> "object", url |-> "number"]}

VARIABLES
    variant,        \* which class built the request
    options,        \* the headers and url options given to the constructor
    opened,         \* the constructor created the transport request
    dataType,       \* declared data type
    method,         \* request method
    state,          \* lifecycle state
    chunks,         \* fragments received
    data,           \* decoded payload
    error,          \* failure message
    statusCode,     \* part_000: status code of the response, 0 when unset
    statusMessage,  \* part_000: reason phrase, "" when unset
    tsSubmit,       \* time of submit()/send(), 0 when unset
    tsResponse,     \* time of the response, 0 when unset
    tsData,         \* time of the data, 0 when unset
    tsAbort,        \* time of abort(), 0 when unset
    resolved,       \* the invocations of the resolver, in order
    emitted,        \* the notifications published, in order
    written,        \* payloads handed to adaptee.end(), in order
    log,            \* notifications and resolver invocations, in order
    aborts,         \* number of adaptee.abort() calls
    listening,      \* the response's data/end handlers are registered
    resStatus,      \* status code of the transport's response, 0 before it
    history,        \* the calls and signals so far, in order
    self,           \* which request the variables above describe: 1 or 2
    other           \* the other request, when two were constructed

config == <<variant, options, opened, dataType, method>>
fields == <<state, chunks, data, error, statusCode, statusMessage,
            tsSubmit, tsResponse, tsData, tsAbort>>
outputs == <<resolved, emitted, written, aborts, log>>
transport == <<listening, resStatus>>
request == <<config, fields, outputs, transport, history>>
vars == <<request, self, other>>

\* Date.now() at the current call or signal
Now == Len(history) + 1

\* The last call or signal
op == IF history = << >> THEN "new" ELSE history[Len(history)]

\* The declared states list of the class.
states ==
    IF variant = "part_000"
    THEN {"aborted", "idle", "pending", "received", "receiving"}
    ELSE {"aborted", "failed", "idle", "pending", "received", "receiving"}

\* The declared dataTypes list of the class (part_003 declares none and
\* reads options.dataType unchecked). In part_000 the type can also be left
\* unset ("none").
dataTypes ==
    IF variant = "part_000" THEN {"json"} ELSE {"json", "text"}

\* state.validate: the value is accepted iff it is in the states list.
StateAccepted(val) == val \in states

\* state.then publishing the value state held before the assignment.
StateThenPre(em, val, renotify) ==
    IF val # state \/ renotify
    THEN Append(em, [topic |-> "state", payload |-> Text(state)])
    ELSE em

\* state.then: emit('state', post, self). `renotify` is the framework's
\* choice of running `then` for an assignment that stores the same value.
StateThen(em, val, renotify) ==
    IF val # state \/ renotify
    THEN Append(em, [topic |-> "state", payload |-> Text(val)])
    ELSE em

Renotify(val) == IF val = state THEN BOOLEAN ELSE {TRUE}

\* A setter that stores every value it is given.
LastNumber(old, val) == val

\* The setters `this.x || val` of the timestamps, statusCode, statusMessage.
FirstNumber(old, val) == IF old # 0 THEN old ELSE val
FirstString(old, val) == IF old # "" THEN old ELSE val

\* part_000 data.set / error.set: XP.isDefined(this.x) ? this.x : val
FirstDefined(old, val) == IF IsDefined(old) THEN old ELSE val

Emit(em, topic, payload) == Append(em, [topic |-> topic, payload |-> payload])

\* The last invocation of the resolver.
LastResolved(r) == r[Len(r)]

\* The resolver invoked before the assignment whose notification was just
\* published.
InvokeFirst(lg, outcome) ==
    IF lg = << >>
    THEN <<[topic |-> "resolver", payload |-> outcome]>>
    ELSE Append(Append(SubSeq(lg, 1, Len(lg) - 1),
                       [topic |-> "resolver", payload |-> outcome]),
                lg[Len(lg)])

\* The resolver is invoked with (error, data).
Invoke(lg, outcome) == Append(lg, [topic |-> "resolver", payload |-> outcome])

\* initialize: self.chunks = []. The literal makes a new array at every
\* construction; an array is named by the request that made it. The second
\* definition is one array made once and stored by every constructor.
SharedChunks(id) == 0
ChunksArray(id) == id

\* No second request was constructed.
NoRequest == [self |-> 0, history |-> << >>]

\* The other request holds the array this request pushes to.
Aliased == other.self # 0 /\ ChunksArray(other.self) = ChunksArray(self)

\* The other request once this request's array has become cs.
Others(cs) == IF Aliased THEN [other EXCEPT !.chunks = cs] ELSE other

\* method.validate: XP.isString(val, true); part_003 declares no method
\* property and hands options.method to the transport unchecked.
MethodAccepted(val) == variant = "part_003" \/ val # ""

\* headers.validate: XP.isObject(val); part_003 declares no headers
\* property.
HeadersAccepted(val) == variant = "part_003" \/ val = "object"

\* url.validate: a string (part_003 never reads options.url: its url is the
\* constructor's string argument or '').
UrlAccepted(val) == variant = "part_003" \/ val = "string"

\* initialize runs adapt() only when no assignment before it was rejected.
Adapted ==
    /\ UrlAccepted(options.url)
    /\ HeadersAccepted(options.headers)
    /\ MethodAccepted(method)

\* initialize: the state after construction. Observers can subscribe only
\* once the constructor has returned, so no notification is recorded. One
\* option at most is malformed, and then the payload is asked for as text. A constructor that raised leaves no request
\* to call and no transport to signal: opened is FALSE and nothing follows.
initialize ==
    /\ variant \in Variants
    /\ dataType \in dataTypes \cup (IF variant = "part_000" THEN {"none"} ELSE {})
    /\ method \in Methods
    /\ options \in OptionSets
    /\ options # PlainOptions => method = "GET"
    /\ (options # PlainOptions \/ method \notin KnownMethods)
          => dataType = (IF variant = "part_000" THEN "none" ELSE "text")
    /\ opened = Adapted
    /\ state = "idle"
    /\ chunks = << >>
    /\ data = Undefined
    /\ error = Undefined
    /\ statusCode = 0
    /\ statusMessage = ""
    /\ tsSubmit = 0
    /\ tsResponse = 0
    /\ tsData = 0
    /\ tsAbort = 0
    /\ resolved = << >>
    /\ emitted = << >>
    /\ log = << >>
    /\ written = << >>
    /\ aborts = 0
    /\ listening = FALSE
    /\ resStatus = 0
    /\ history = << >>

\* One request is constructed.
Init ==
    /\ initialize
    /\ self = 1
    /\ other = NoRequest

\* A call or signal happens: it is recorded and the clock advances.
Event(name) ==
    /\ opened
    /\ Len(history) + Len(other.history) < MaxEvents
    /\ history' = Append(history, name)
    /\ UNCHANGED <<config, self>>
    /\ IF name = "data" THEN TRUE ELSE UNCHANGED other

\* abort's guard reading the data timestamp instead of the abort timestamp.
AbortDoneOnData == tsData # 0

\* abort's guard: the early return of a request already aborted.
AbortDone == tsAbort # 0

\* abort(): the same code in the three variants.
abort ==
    /\ Event("abort")
    /\ IF AbortDone
       THEN UNCHANGED <<fields, outputs, transport>>
       ELSE /\ aborts' = aborts + 1
            /\ state' = "aborted"
            /\ \E renotify \in Renotify("aborted") :
                   /\ emitted' = StateThen(emitted, "aborted", renotify)
                   /\ log' = StateThen(log, "aborted", renotify)
            /\ tsAbort' = FirstNumber(tsAbort, Now)
            /\ UNCHANGED <<chunks, data, error, statusCode, statusMessage,
                           tsSubmit, tsResponse, tsData, resolved, written,
                           transport>>

\* submit's guard reading the response timestamp instead of the submit one.
SubmitDoneOnResponse == tsResponse # 0

\* submit's / send's guard: the early return of a request already sent.
SubmitDone == tsSubmit # 0

\* part_000 submit: the serialisation of the body.
Serialized(body) == IF method = "GET" THEN Undefined ELSE body

\* part_000 submit(data)
submit(body) ==
    /\ variant = "part_000"
    /\ Event("submit")
    /\ IF SubmitDone
       THEN UNCHANGED <<fields, outputs, transport>>
       ELSE /\ written' = Append(written, Serialized(body))
            /\ state' = "pending"
            /\ tsSubmit' = FirstNumber(tsSubmit, Now)
            /\ \E renotify \in Renotify("pending") :
                   /\ emitted' = Emit(StateThen(emitted, "pending", renotify),
                                      "submit", Serialized(body))
                   /\ log' = Emit(StateThen(log, "pending", renotify),
                                      "submit", Serialized(body))
            /\ UNCHANGED <<chunks, data, error, statusCode, statusMessage,
                           tsResponse, tsData, tsAbort, resolved, aborts,
                           transport>>

\* part_002 / part_003 send(data)
send(body) ==
    /\ variant # "part_000"
    /\ Event("submit")
    /\ IF SubmitDone
       THEN UNCHANGED <<fields, outputs, transport>>
       ELSE /\ written' = Append(written, body)
            /\ state' = "pending"
            /\ tsSubmit' = FirstNumber(tsSubmit, Now)
            /\ \E renotify \in Renotify("pending") :
                   /\ emitted' = StateThen(emitted, "pending", renotify)
                   /\ log' = StateThen(log, "pending", renotify)
            /\ UNCHANGED <<chunks, data, error, statusCode, statusMessage,
                           tsResponse, tsData, tsAbort, resolved, aborts,
                           transport>>

\* XP.join / Buffer.concat / chunks.join(''): the fragments joined in order.
RECURSIVE Join(_)
Join(cs) == IF cs = << >> THEN "" ELSE Head(cs) \o Join(Tail(cs))

\* The documents JSON.parse accepts, among the texts the model can build.
WellFormed(text) == text = "{\"ok\":true}"

\* JSON.parse of a well-formed text: the structured value.
ParseJSON(text) == Doc("ok: true")

\* http.STATUS_CODES[statusCode] || 'Unknown'
ReasonPhrase(code) ==
    CASE code = 200 -> "OK"
      [] code = 400 -> "Bad Request"
      [] code = 404 -> "Not Found"
      [] OTHER -> "Unknown"

\* handleData putting the fragment in front of chunks (unshift for push).
handleDataUnshift(chunk) ==
    /\ listening
    /\ Event("data")
    /\ chunks' = <<chunk>> \o chunks
    /\ other' = Others(chunks')
    /\ emitted' = Emit(emitted, "chunk", Text(chunk))
    /\ log' = Emit(log, "chunk", Text(chunk))
    /\ UNCHANGED <<state, data, error, statusCode, statusMessage, tsSubmit,
                   tsResponse, tsData, tsAbort, resolved, written, aborts,
                   transport>>

\* handleData / _handleData(chunk): the same code in the three variants.
handleData(chunk) ==
    /\ listening
    /\ Event("data")
    /\ chunks' = Append(chunks, chunk)
    /\ other' = Others(chunks')
    /\ emitted' = Emit(emitted, "chunk", Text(chunk))
    /\ log' = Emit(log, "chunk", Text(chunk))
    /\ UNCHANGED <<state, data, error, statusCode, statusMessage, tsSubmit,
                   tsResponse, tsData, tsAbort, resolved, written, aborts,
                   transport>>

(***************************************************************************)
(* part_000                                                                *)
(***************************************************************************)

\* _handleEnd: failed = self.statusCode >= 400
Failed == statusCode >= 400

\* XP.parseJSON(text): the structured value, undefined for a malformed text.
XPParseJSON(text) == IF WellFormed(text) THEN ParseJSON(text) ELSE Undefined

\* _handleEnd: the value assigned to self.data
EndData ==
    IF Failed THEN Null
    ELSE IF dataType = "json" THEN XPParseJSON(Join(chunks))
    ELSE Text(Join(chunks))

\* _handleEnd: the value assigned to self.error
EndError ==
    IF Failed
    THEN Text(IF Join(chunks) # "" THEN Join(chunks) ELSE statusMessage)
    ELSE Null

\* _handleEnd: the value assigned to self.state
EndState == IF Failed THEN "failed" ELSE "received"

\* part_000 _handleEnd()
handleEnd0 ==
    /\ variant = "part_000"
    /\ listening
    /\ Event("end")
    /\ data' = FirstDefined(data, EndData)
    /\ error' = FirstDefined(error, EndError)
    /\ IF StateAccepted(EndState)
       THEN /\ state' = EndState
            /\ tsData' = FirstNumber(tsData, Now)
            /\ resolved' = Append(resolved, [error |-> error', data |-> data'])
            /\ \E renotify \in Renotify(EndState) :
                   /\ emitted' = Emit(StateThen(emitted, EndState, renotify),
                                      IF Failed THEN "error" ELSE "data",
                                      IF Failed THEN error' ELSE data')
                   /\ log' = Emit(Invoke(StateThen(log, EndState, renotify), LastResolved(resolved')),
                                      IF Failed THEN "error" ELSE "data",
                                      IF Failed THEN error' ELSE data')
       ELSE \* the assignment of state raises: the rest is skipped
            UNCHANGED <<state, tsData, resolved, emitted, log>>
    /\ UNCHANGED <<chunks, statusCode, statusMessage, tsSubmit, tsResponse,
                   tsAbort, written, aborts, transport>>

\* part_000 _handleError(error)
handleError0(message) ==
    /\ variant = "part_000"
    /\ Event("error")
    /\ error' = FirstDefined(error, Text(IF message # "" THEN message ELSE "Unknown"))
    /\ IF StateAccepted("failed")
       THEN /\ state' = "failed"
            /\ resolved' = Append(resolved, [error |-> error', data |-> Null])
            /\ \E renotify \in Renotify("failed") :
                   /\ emitted' = Emit(StateThen(emitted, "failed", renotify),
                                      "error", error')
                   /\ log' = Emit(Invoke(StateThen(log, "failed", renotify), LastResolved(resolved')),
                                      "error", error')
       ELSE \* the assignment of state raises: the rest is skipped
            UNCHANGED <<state, resolved, emitted, log>>
    /\ UNCHANGED <<chunks, data, statusCode, statusMessage, tsSubmit,
                   tsResponse, tsData, tsAbort, written, aborts, transport>>

\* part_000 _handleResponse(response)
handleResponse0(code) ==
    /\ variant = "part_000"
    /\ resStatus = 0
    /\ written # << >>
    /\ Event("response")
    /\ resStatus' = code
    /\ state' = "receiving"
    /\ statusCode' = FirstNumber(statusCode, code)
    /\ statusMessage' = FirstString(statusMessage, ReasonPhrase(code))
    /\ tsResponse' = FirstNumber(tsResponse, Now)
    /\ listening' = TRUE
    /\ \E renotify \in Renotify("receiving") :
           /\ emitted' = Emit(StateThen(emitted, "receiving", renotify),
                              "response", Num(statusCode'))
           /\ log' = Emit(StateThen(log, "receiving", renotify),
                              "response", Num(statusCode'))
    /\ UNCHANGED <<chunks, data, error, tsSubmit, tsData, tsAbort, resolved,
                   written, aborts>>

(***************************************************************************)
(* part_002 and part_003                                                   *)
(***************************************************************************)

\* The request itself, as the payload of a notification (part_003).
Self == [tag |-> "self", val |-> ""]

\* The transport's response object, as the payload of a notification.
ResponseObject(code) == [tag |-> "response", val |-> ToString(code)]

\* data.validate: XP.isString(val) || Buffer.isBuffer(val)
DataAccepted(val) == val.tag = "string"

\* parse(data): JSON.parse for dataType json, the text itself otherwise.
\* threw says that JSON.parse raised.
parse(text) ==
    IF dataType = "json"
    THEN IF WellFormed(text)
         THEN [threw |-> FALSE, value |-> ParseJSON(text), message |-> ""]
         ELSE [threw |-> TRUE, value |-> Undefined, message |-> "Unexpected token"]
    ELSE [threw |-> FALSE, value |-> Text(text), message |-> ""]

\* The body of handleError(error): what it does to the request.
handleErrorBody(err) ==
    /\ state' = "failed"
    /\ tsResponse' = FirstNumber(tsResponse, Now)
    /\ tsData' = FirstNumber(tsData, tsResponse')
    /\ resolved' = Append(resolved, [error |-> err, data |-> Undefined])
    /\ \E renotify \in Renotify("failed") :
           /\ emitted' =
                  Emit(Emit(StateThen(emitted, "failed", renotify),
                            "response", IF variant = "part_002" THEN Null ELSE Self),
                       IF variant = "part_002" THEN "error" ELSE "fail", err)
           /\ log' =
                  Emit(Emit(Invoke(StateThen(log, "failed", renotify), LastResolved(resolved')),
                            "response", IF variant = "part_002" THEN Null ELSE Self),
                       IF variant = "part_002" THEN "error" ELSE "fail", err)
    /\ UNCHANGED <<chunks, data, error, statusCode, statusMessage, tsSubmit,
                   tsAbort, written, aborts, transport>>

\* part_002 / part_003 handleError(error), as the transport's error handler
handleError(message) ==
    /\ variant # "part_000"
    /\ Event("error")
    /\ handleErrorBody(ErrorObject(message))

\* part_002 / part_003 handleEnd()
handleEnd ==
    /\ variant # "part_000"
    /\ listening
    /\ Event("end")
    /\ LET parsed == parse(Join(chunks)) IN
       IF parsed.threw
       THEN handleErrorBody(Text(parsed.message))
       ELSE IF ~DataAccepted(parsed.value)
       THEN handleErrorBody(Text("data is not valid"))
       ELSE /\ data' = parsed.value
            /\ state' = "received"
            /\ tsData' = FirstNumber(tsData, Now)
            /\ resolved' = Append(resolved, [error |-> Null, data |-> data'])
            /\ \E renotify \in Renotify("received") :
                   /\ emitted' = Emit(StateThen(emitted, "received", renotify),
                                      "data", data')
                   /\ log' = Emit(Invoke(StateThen(log, "received", renotify), LastResolved(resolved')),
                                      "data", data')
            /\ UNCHANGED <<chunks, error, statusCode, statusMessage, tsSubmit,
                           tsResponse, tsAbort, written, aborts, transport>>

\* part_002 / part_003 handleResponse(response)
handleResponse(code) ==
    /\ variant # "part_000"
    /\ resStatus = 0
    /\ written # << >>
    /\ Event("response")
    /\ resStatus' = code
    /\ state' = "receiving"
    /\ tsResponse' = FirstNumber(tsResponse, Now)
    /\ listening' = TRUE
    /\ \E renotify \in Renotify("receiving") :
           /\ emitted' = Emit(StateThen(emitted, "receiving", renotify), "response",
                              IF variant = "part_002" THEN ResponseObject(code) ELSE Self)
           /\ log' = Emit(StateThen(log, "receiving", renotify), "response",
                              IF variant = "part_002" THEN ResponseObject(code) ELSE Self)
    /\ UNCHANGED <<chunks, data, error, statusCode, statusMessage, tsSubmit,
                   tsData, tsAbort, resolved, written, aborts>>

Next ==
    \/ abort
    \/ \E body \in Bodies : submit(body)
    \/ \E body \in Bodies : send(body)
    \/ \E chunk \in Fragments : handleData(chunk)
    \/ handleEnd0
    \/ \E message \in Messages : handleError0(message)
    \/ \E code \in StatusCodes : handleResponse0(code)
    \/ handleEnd
    \/ \E message \in Messages : handleError(message)
    \/ \E code \in StatusCodes : handleResponse(code)

Spec == Init /\ [][Next]_vars

(***************************************************************************)
(* Two requests                                                            *)
(***************************************************************************)

\* The request the variables describe, as a record.
This ==
    [self |-> self, variant |-> variant, options |-> options,
     opened |-> opened, dataType |-> dataType, method |-> method,
     state |-> state, chunks |-> chunks, data |-> data, error |-> error,
     statusCode |-> statusCode, statusMessage |-> statusMessage,
     tsSubmit |-> tsSubmit, tsResponse |-> tsResponse, tsData |-> tsData,
     tsAbort |-> tsAbort, resolved |-> resolved, emitted |-> emitted,
     written |-> written, aborts |-> aborts, log |-> log, listening |-> listening,
     resStatus |-> resStatus, history |-> history]

\* Two requests are constructed by the same class from the same well-formed
\* options record, which asks for a GET and for the payload as text.
PairInit ==
    /\ initialize
    /\ options = PlainOptions
    /\ method = "GET"
    /\ dataType = (IF variant = "part_000" THEN "none" ELSE "text")
    /\ self = 1
    /\ other = [This EXCEPT !.self = 2]

\* The next call or signal is for the other request.
Turn ==
    /\ other.self # 0
    /\ self' = other.self
    /\ variant' = other.variant
    /\ options' = other.options
    /\ opened' = other.opened
    /\ dataType' = other.dataType
    /\ method' = other.method
    /\ state' = other.state
    /\ chunks' = other.chunks
    /\ data' = other.data
    /\ error' = other.error
    /\ statusCode' = other.statusCode
    /\ statusMessage' = other.statusMessage
    /\ tsSubmit' = other.tsSubmit
    /\ tsResponse' = other.tsResponse
    /\ tsData' = other.tsData
    /\ tsAbort' = other.tsAbort
    /\ resolved' = other.resolved
    /\ emitted' = other.emitted
    /\ log' = other.log
    /\ written' = other.written
    /\ aborts' = other.aborts
    /\ listening' = other.listening
    /\ resStatus' = other.resStatus
    /\ history' = other.history
    /\ other' = This

PairNext == Next \/ Turn

PairSpec == PairInit /\ [][PairNext]_vars
(***************************************************************************)
(* Calls made from inside an observer                                      *)
(*                                                                         *)
(* emit() runs the observers before it returns, and state.then runs inside *)
(* the assignment to state. An observer of the state topic that calls the  *)
(* request back therefore runs in the middle of submit()/send()/abort(),   *)
(* after the assignment to state and before the statements that follow it. *)
(* The observer modelled here calls back once, when it is first told the   *)
(* value.                                                                  *)
(***************************************************************************)

\* state.then of an assignment that stores the value state already holds.
Renote(em, val, again) ==
    IF again THEN Append(em, [topic |-> "state", payload |-> Text(val)]) ELSE em

\* abort() with an observer that calls abort() when told 'aborted'. The
\* inner call reads tsAbort before the outer call has assigned it.
abortObserved ==
    /\ Event("reabort")
    /\ IF AbortDone
       THEN UNCHANGED <<fields, outputs, transport>>
       ELSE \E renotify \in Renotify("aborted"), again \in BOOLEAN :
            LET told == state # "aborted" \/ renotify
                inner == told /\ ~AbortDone
            IN  /\ aborts' = aborts + (IF inner THEN 2 ELSE 1)
                /\ state' = "aborted"
                /\ emitted' =
                      IF inner
                      THEN Renote(StateThen(emitted, "aborted", renotify), "aborted", again)
                      ELSE StateThen(emitted, "aborted", renotify)
                /\ log' =
                      IF inner
                      THEN Renote(StateThen(log, "aborted", renotify), "aborted", again)
                      ELSE StateThen(log, "aborted", renotify)
                /\ tsAbort' = FirstNumber(tsAbort, Now)
                /\ UNCHANGED <<chunks, data, error, statusCode, statusMessage,
                               tsSubmit, tsResponse, tsData, resolved, written,
                               transport>>

\* part_000 submit(data) with an observer that calls submit(data) when told
\* 'pending'. The inner call reads tsSubmit before the outer call has
\* assigned it; each call ends with its own submit notification.
submitObserved(body) ==
    /\ variant = "part_000"
    /\ Event("resubmit")
    /\ IF SubmitDone
       THEN UNCHANGED <<fields, outputs, transport>>
       ELSE \E renotify \in Renotify("pending"), again \in BOOLEAN :
            LET told == state # "pending" \/ renotify
                inner == told /\ ~SubmitDone
                once(em) == Emit(StateThen(em, "pending", renotify),
                                 "submit", Serialized(body))
                twice(em) == Emit(Emit(Renote(StateThen(em, "pending", renotify),
                                              "pending", again),
                                       "submit", Serialized(body)),
                                  "submit", Serialized(body))
            IN  /\ written' =
                      IF inner
                      THEN Append(Append(written, Serialized(body)), Serialized(body))
                      ELSE Append(written, Serialized(body))
                /\ state' = "pending"
                /\ tsSubmit' = FirstNumber(tsSubmit, Now)
                /\ emitted' = IF inner THEN twice(emitted) ELSE once(emitted)
                /\ log' = IF inner THEN twice(log) ELSE once(log)
                /\ UNCHANGED <<chunks, data, error, statusCode, statusMessage,
                               tsResponse, tsData, tsAbort, resolved, aborts,
                               transport>>

\* part_002 / part_003 send(data) with an observer that calls send(data)
\* when told 'pending'.
sendObserved(body) ==
    /\ variant # "part_000"
    /\ Event("resubmit")
    /\ IF SubmitDone
       THEN UNCHANGED <<fields, outputs, transport>>
       ELSE \E renotify \in Renotify("pending"), again \in BOOLEAN :
            LET told == state # "pending" \/ renotify
                inner == told /\ ~SubmitDone
                once(em) == StateThen(em, "pending", renotify)
                twice(em) == Renote(StateThen(em, "pending", renotify),
                                    "pending", again)
            IN  /\ written' =
                      IF inner
                      THEN Append(Append(written, body), body)
                      ELSE Append(written, body)
                /\ state' = "pending"
                /\ tsSubmit' = FirstNumber(tsSubmit, Now)
                /\ emitted' = IF inner THEN twice(emitted) ELSE once(emitted)
                /\ log' = IF inner THEN twice(log) ELSE once(log)
                /\ UNCHANGED <<chunks, data, error, statusCode, statusMessage,
                               tsResponse, tsData, tsAbort, resolved, aborts,
                               transport>>

ObservedNext ==
    \/ Next
    \/ abortObserved
    \/ \E body \in Bodies : submitObserved(body)
    \/ \E body \in Bodies : sendObserved(body)

\* One request is constructed from well-formed options that ask for a GET
\* and for the payload as text, and an observer that calls back subscribes.
ObservedInit ==
    /\ Init
    /\ options = PlainOptions
    /\ method = "GET"
    /\ dataType = (IF variant = "part_000" THEN "none" ELSE "text")

ObservedSpec == ObservedInit /\ [][ObservedNext]_vars

(***************************************************************************)
(* Properties                                                              *)
(***************************************************************************)

Terminal == {"received", "failed", "aborted"}
Signals == {"response", "data", "end", "error"}

\* The step is the call or signal `name`.
Step(name) == history' # history /\ op' = name

\* The step is a transport signal.
SignalStep == history' # history /\ op' \in Signals

\* Number of earlier calls or signals `name`.
Count(name) == Cardinality({i \in 1..Len(history) : history[i] = name})

\* C1: once state is received, failed or aborted, no later call or signal
\* changes it.
C1_TerminalStateKept ==
    [][(
       state \in Terminal => state' = state
    )]_vars

\* C2: a request that reaches a terminal outcome has had its continuation
\* invoked exactly once, and no further signal invokes it again.
C2_ResolvedExactlyOnce ==
    /\ Len(resolved) <= 1
    /\ state \in Terminal => Len(resolved) = 1

\* C3: abort() on a request in idle, pending or receiving makes state aborted
\* within the call, and a signal delivered to an aborted request changes no
\* field, invokes no continuation and publishes nothing.
C3_AbortedIgnoresSignals ==
    [][(
       /\ (Step("abort") /\ state \in {"idle", "pending", "receiving"})
            => state' = "aborted"
       /\ (SignalStep /\ state = "aborted")
            => UNCHANGED <<fields, resolved, emitted>>
    )]_vars

\* The edges of the state machine, each with the call or signal that takes it.
Edges ==
    {<<"idle", "submit", "pending">>,
     <<"pending", "response", "receiving">>,
     <<"receiving", "end", "received">>,
     <<"receiving", "end", "failed">>,
     <<"pending", "error", "failed">>,
     <<"receiving", "error", "failed">>,
     <<"idle", "abort", "aborted">>,
     <<"pending", "abort", "aborted">>,
     <<"receiving", "abort", "aborted">>}

\* C4: every change of state is one of the listed edges.
C4_OnlyListedEdges ==
    [][(
       state' # state => <<state, op', state'>> \in Edges
    )]_vars

\* C5: at most one of data and error is populated; none while idle, pending
\* or receiving; exactly one once received or failed.
C5_DataXorError ==
    /\ ~(Populated(data) /\ Populated(error))
    /\ state \in {"idle", "pending", "receiving"}
          => ~Populated(data) /\ ~Populated(error)
    /\ state \in {"received", "failed"}
          => (Populated(data) \/ Populated(error))

C7_SubmitOnlyFromIdle ==
    [][(
       (Step("submit") /\ state # "idle")
          => written' = written /\ state' = state
    )]_vars

\* C8: abort() on a request that is received or failed changes nothing and
\* does not signal the transport.
C8_AbortAfterCompletionIsNoOp ==
    [][(
       (Step("abort") /\ state \in {"received", "failed"})
          => UNCHANGED <<state, tsAbort, data, error, chunks, emitted, aborts>>
    )]_vars

\* C9: after a first abort(), a further abort() changes no field, publishes
\* nothing and does not signal the transport again (one abort signal in
\* total); tsAbort stays the time of the first call, and state is still
\* aborted after an abort() that directly follows the first.
C9_AbortIdempotent ==
    [][(
       Step("abort") =>
          /\ aborts' = 1
          /\ Count("abort") >= 1 => UNCHANGED <<fields, outputs, transport>>
          /\ (Count("abort") = 1 /\ op = "abort")
                => state' = "aborted" /\ tsAbort' = Len(history)
    )]_vars

\* C9 witness: abort() was called twice in a row on a request that was
\* receiving; the transport was signalled once.
C9_Witness ==
    /\ Count("abort") = 2
    /\ Len(history) >= 2
    /\ history[Len(history) - 1] = "abort"
    /\ op = "abort"
    /\ listening
    /\ aborts = 1
    /\ state = "aborted"

\* C10: end-of-stream on a receiving request is classified by the status
\* code of the response alone: failed whenever it is >= 400, received only
\* when it is < 400.
C10_ClassifiedByStatus ==
    [][(
       (Step("end") /\ state = "receiving") =>
          /\ resStatus >= 400 => state' = "failed"
          /\ state' = "received" => resStatus < 400
    )]_vars

\* C11: end-of-stream on a receiving request whose response has a status
\* >= 400 applies no decoding: error is the accumulated payload as text, or
\* the reason phrase of the status when the payload is empty, data stays
\* unpopulated and state ends failed.
C11_FailureKeepsPayloadAsError ==
    [][(
       (Step("end") /\ state = "receiving" /\ resStatus >= 400) =>
          /\ state' = "failed"
          /\ ~Populated(data')
          /\ error' = Text(IF Join(chunks) # "" THEN Join(chunks)
                           ELSE ReasonPhrase(resStatus))
    )]_vars

\* The declared-type decoding of a payload: the text itself for text or an
\* unset type, the structured value for json.
Decoded(text) == IF dataType = "json" THEN Doc("ok: true") ELSE Text(text)

\* C12: the first end-of-stream on a receiving request that has seen no
\* error signal, whose response has a status < 400 and whose payload is
\* decodable, sets data to the decoding of the fragments joined in arrival
\* order, ends received and hands that data to the continuation.
C12_SuccessDecodesPayload ==
    [][(
       (/\ Step("end")
        /\ state = "receiving"
        /\ Count("error") = 0
        /\ Count("end") = 0
        /\ resStatus < 400
        /\ dataType = "json" => WellFormed(Join(chunks))) =>
          /\ state' = "received"
          /\ data' = Decoded(Join(chunks))
          /\ Len(resolved') = Len(resolved) + 1
          /\ LastResolved(resolved').data = data'
          /\ ~Populated(LastResolved(resolved').error)
    )]_vars

\* The notifications of a topic among those published.
Topic(em, topic) == SelectSeq(em, LAMBDA n : n.topic = topic)

\* C13: the first end-of-stream on a receiving request of dataType json that
\* has seen no error signal, whose response has a status < 400 and whose
\* payload is not a well-formed document, ends failed; the continuation is
\* invoked once, with an error and no data, and no data notification is
\* published.
C13_DecodeFailureFails ==
    [][(
       (/\ Step("end")
        /\ state = "receiving"
        /\ Count("error") = 0
        /\ Count("end") = 0
        /\ resStatus < 400
        /\ dataType = "json"
        /\ ~WellFormed(Join(chunks))) =>
          /\ state' = "failed"
          /\ Len(resolved') = 1
          /\ Populated(LastResolved(resolved').error)
          /\ ~Populated(LastResolved(resolved').data)
          /\ Topic(emitted', "data") = << >>
    )]_vars

\* C14: a transport error signal on a pending or receiving request ends
\* failed, stores an error, invokes the continuation with an error and no
\* data and publishes an error notification.
C14_TransportErrorFails ==
    [][(
       (Step("error") /\ state \in {"pending", "receiving"}) =>
          /\ state' = "failed"
          /\ Populated(error')
          /\ Len(resolved') = Len(resolved) + 1
          /\ Populated(LastResolved(resolved').error)
          /\ ~Populated(LastResolved(resolved').data)
          /\ Len(Topic(emitted', "error")) + Len(Topic(emitted', "fail"))
                = Len(Topic(emitted, "error")) + Len(Topic(emitted, "fail")) + 1
    )]_vars

(***************************************************************************)
(* The request under a transport that keeps its contract: after the        *)
(* request was written it emits one error signal, or one response signal    *)
(* followed by data fragments and one end-of-stream, possibly cut short by  *)
(* one error signal; it emits nothing once adaptee.abort() was called.      *)
(* Every signal the transport can emit is eventually delivered; the caller  *)
(* is free never to call again.                                             *)
(***************************************************************************)

\* The transport may still emit: it was not aborted and has emitted neither
\* its error signal nor its end-of-stream.
Emitting ==
    /\ aborts = 0
    /\ written # << >>
    /\ Count("error") = 0
    /\ Count("end") = 0

\* The signals of a transport that keeps its contract.
Delivery ==
    /\ Emitting
    /\ \/ \E chunk \in Fragments : handleData(chunk)
       \/ handleEnd0
       \/ \E message \in Messages : handleError0(message)
       \/ \E code \in StatusCodes : handleResponse0(code)
       \/ handleEnd
       \/ \E message \in Messages : handleError(message)
       \/ \E code \in StatusCodes : handleResponse(code)

\* The calls of the caller.
Calls ==
    \/ abort
    \/ \E body \in Bodies : submit(body)
    \/ \E body \in Bodies : send(body)

ContractNext == Calls \/ Delivery

LiveSpec == Init /\ [][ContractNext]_vars /\ WF_vars(Delivery)

\* C15: once abort() was invoked on a request whose continuation has not
\* been invoked, the continuation is eventually invoked.
C15_AbortEventuallySettles ==
    (tsAbort # 0 /\ resolved = << >>) ~> (resolved # << >>)

\* C16: each of tsSubmit, tsResponse, tsData, tsAbort, statusCode and
\* statusMessage, once it holds a value, is changed by no later call or
\* signal.
C16_WriteOnce ==
    [][(
       /\ tsSubmit # 0 => tsSubmit' = tsSubmit
       /\ tsResponse # 0 => tsResponse' = tsResponse
       /\ tsData # 0 => tsData' = tsData
       /\ tsAbort # 0 => tsAbort' = tsAbort
       /\ statusCode # 0 => statusCode' = statusCode
       /\ statusMessage # "" => statusMessage' = statusMessage
    )]_vars

\* C16 witness: in part_002 / part_003 a second end-of-stream was handled,
\* and a transport error (whose handler assigns timeResponse and timeData
\* again), and tsData and tsResponse are still the times of the first
\* end-of-stream and of the response.
C16_Witness ==
    /\ variant # "part_000"
    /\ Count("end") = 2
    /\ Count("response") = 1
    /\ Count("error") = 1
    /\ op = "error"
    /\ tsResponse # 0
    /\ history[tsResponse] = "response"
    /\ tsData # 0
    /\ history[tsData] = "end"
    /\ \E i \in (tsData + 1)..Len(history) : history[i] = "end"

\* C17: data and error, once populated, are overwritten by no later
\* end-of-stream or error signal.
C17_DataAndErrorSetOnce ==
    [][(
       /\ Populated(data) => data' = data
       /\ Populated(error) => error' = error
    )]_vars

\* C18: data is populated only in a received request and error only in a
\* failed one.
C18_PayloadMatchesState ==
    /\ Populated(data) => state = "received"
    /\ Populated(error) => state = "failed"

\* C19: chunks changes only while state is receiving.
C19_ChunksOnlyWhileReceiving ==
    [][(
       chunks' # chunks => state = "receiving"
    )]_vars

\* The fragments published as chunk notifications, in order.
Published(em) ==
    [i \in 1..Len(Topic(em, "chunk")) |-> Topic(em, "chunk")[i].payload.val]

\* C20: a data fragment delivered to a receiving request is appended at the
\* end of chunks and published as one chunk notification in the same step,
\* and after every step chunks is the sequence of the fragments published.
C20_ChunksInArrivalOrder ==
    [][(
       /\ (Step("data") /\ state = "receiving") =>
             \E c \in Fragments :
                /\ chunks' = Append(chunks, c)
                /\ emitted' = Append(emitted, [topic |-> "chunk", payload |-> Text(c)])
       /\ Published(emitted') = chunks'
    )]_vars

\* C20 witness: a receiving request has received two different fragments.
C20_Witness ==
    /\ state = "receiving"
    /\ op = "data"
    /\ Len(chunks) = 2
    /\ chunks[1] # chunks[2]
    /\ Published(emitted) = chunks

\* The values published as state notifications, in order.
StateNotes(em) ==
    [i \in 1..Len(Topic(em, "state")) |-> Topic(em, "state")[i].payload.val]

\* C21: a step that changes state publishes exactly one state notification,
\* carrying the new value, and a step that leaves state alone publishes
\* none; hence the state notifications are the values state has taken since
\* construction, in order.
C21_StateChangesPublished ==
    [][(
       StateNotes(emitted') =
          IF state' # state
          THEN Append(StateNotes(emitted), state')
          ELSE StateNotes(emitted)
    )]_vars

\* C21 witness: a request has gone through pending and receiving to its
\* completion, with the three changes published.
C21_Witness ==
    /\ state \in {"received", "failed"}
    /\ StateNotes(emitted) = <<"pending", "receiving", state>>

\* C22: received and failed are entered only from receiving, never directly
\* from idle or pending (aborted may be entered from idle, pending and
\* receiving).
C22_CompletionOnlyFromReceiving ==
    [][(
       (state' # state /\ state' \in {"received", "failed"})
          => state = "receiving"
    )]_vars

\* C23: a failed request has been submitted: state = failed implies that
\* the submit timestamp is set.
C23_FailedOnlyAfterSubmit ==
    state = "failed" => tsSubmit # 0

\* C24: a request whose method is GET hands an empty payload to the
\* transport, whatever body the caller supplied.
C24_GetDiscardsBody ==
    method = "GET" => \A i \in 1..Len(written) : IsVoid(written[i])

\* The options given to the constructor are malformed.
Malformed ==
    \/ options.url # "string"
    \/ method \notin KnownMethods
    \/ options.headers # "object"

\* C25: a constructor given a non-string url, an unknown method or
\* non-object headers opens no transport connection, and no request in
\* state pending results from it.
C25_MalformedOptionsRejected ==
    Malformed => (~opened /\ state # "pending")

\* The values the step assigns to state: the call or signal handler of the
\* step, past its early return.
StepAssigns ==
    IF Step("submit") /\ ~SubmitDone THEN {"pending"}
    ELSE IF Step("abort") /\ ~AbortDone THEN {"aborted"}
    ELSE IF Step("response") THEN {"receiving"}
    ELSE IF Step("error") THEN {"failed"}
    ELSE IF Step("end") /\ variant = "part_000" THEN {EndState}
    ELSE IF Step("end") /\ state' # state THEN {state'}
    ELSE {}

\* C26: state holds one of the six lifecycle values, and every value a call
\* or a signal handler assigns to state is in the request's declared states
\* list, so that the state validator rejects no lifecycle assignment.
C26_StatesDeclared ==
    [][(
       /\ state' \in {"idle", "pending", "receiving", "received", "failed", "aborted"}
       /\ StepAssigns \subseteq states
    )]_vars

\* C27: of two requests, a call or signal on one leaves every field of the
\* other unchanged (state, chunks, data, error, timestamps, options).
C27_RequestsIndependent ==
    [][(
       self' = self => other' = other
    )]_vars

\* C27 witness: both requests are receiving; one has received a fragment and
\* the other holds none.
C27_Witness ==
    /\ other.self # 0
    /\ op = "data"
    /\ state = "receiving"
    /\ chunks # << >>
    /\ other.state = "receiving"
    /\ other.chunks = << >>

\* C28: when the continuation is invoked, it receives a populated error and
\* no data exactly when state is then failed, no error and the request's
\* data exactly when state is then received, and never both an error and
\* data.
C28_OutcomeAgreesWithState ==
    [][(
       Len(resolved') > Len(resolved) =>
          LET r == LastResolved(resolved') IN
          /\ (Populated(r.error) /\ ~Populated(r.data)) <=> state' = "failed"
          /\ (~Populated(r.error) /\ r.data = data') <=> state' = "received"
          /\ ~(Populated(r.error) /\ Populated(r.data))
    )]_vars

\* C29: with a transport that keeps its contract and every signal it emits
\* delivered, a submitted request eventually is in a terminal state with its
\* continuation invoked (or the behaviour has used up MaxEvents).
C29_SubmittedEventuallySettles ==
    (tsSubmit # 0) ~>
        \/ state \in Terminal /\ resolved # << >>
        \/ Len(history) >= MaxEvents

\* C30: the response timestamp is unset as long as no response signal was
\* handled, and the data timestamp is unset as long as no end-of-stream was
\* handled; a transport error sets neither.
C30_TimestampsNameTheirTransition ==
    /\ Count("response") = 0 => tsResponse = 0
    /\ Count("end") = 0 => tsData = 0

\* C34: at most one response notification is published for a request, only
\* by the step that handles the transport's response signal, and its payload
\* is populated (the status code or the response's metadata).
C34_OneResponseNotification ==
    [][(
       /\ Len(Topic(emitted', "response")) <= 1
       /\ Topic(emitted', "response") # Topic(emitted, "response")
             => Step("response")
       /\ \A i \in 1..Len(Topic(emitted', "response")) :
             Populated(Topic(emitted', "response")[i].payload)
    )]_vars

\* C33: the timestamps that are set are ordered: the submit timestamp is not
\* after the response timestamp, and the response timestamp is not after the
\* data timestamp.
C33_TimestampsOrdered ==
    /\ (tsSubmit # 0 /\ tsResponse # 0) => tsSubmit <= tsResponse
    /\ (tsResponse # 0 /\ tsData # 0) => tsResponse <= tsData
    /\ (tsSubmit # 0 /\ tsData # 0) => tsSubmit <= tsData

\* The topics of the notifications that tell observers of a completion.
Completion == {"data", "error", "fail"}

\* C32: a step that handles end-of-stream and completes the request first
\* publishes the state notification with the terminal value, then invokes
\* the continuation, and last publishes one data, error or fail
\* notification; every chunk notification came before. In every state a
\* data, error or fail notification has the continuation's invocation
\* before it and no chunk notification after it.
C32_CompletionOrder ==
    [][(
       /\ (Step("end") /\ Len(resolved') > Len(resolved)) =>
             LET new == SubSeq(log', Len(log) + 1, Len(log')) IN
             /\ state' \in Terminal
             /\ new[1] = [topic |-> "state", payload |-> Text(state')]
             /\ new[2].topic = "resolver"
             /\ new[Len(new)].topic \in Completion
             /\ \A i \in 3..(Len(new) - 1) :
                   new[i].topic \notin Completion \cup {"resolver", "chunk", "state"}
       /\ \A i \in 1..Len(log') :
             log'[i].topic \in Completion =>
                /\ \E j \in 1..(i - 1) : log'[j].topic = "resolver"
                /\ \A k \in (i + 1)..Len(log') : log'[k].topic # "chunk"
    )]_vars

\* C32 witness: end-of-stream has completed a request that had received two
\* fragments; the log ends with the state notification, the invocation and
\* the data notification.
C32_Witness ==
    /\ op = "end"
    /\ state = "received"
    /\ Len(chunks) = 2
    /\ Len(Topic(log, "chunk")) = 2
    /\ log[Len(log)].topic = "data"
    /\ log[Len(log) - 1].topic = "resolver"
    /\ log[Len(log) - 2].topic = "state"

\* C31: a submit() called from inside the observer of the pending
\* notification causes no second transport write, and an abort() called
\* from inside the observer of the aborted notification causes no second
\* transport abort.
C31_GuardInForceWhenNotified ==
    [][(
       /\ Step("resubmit") => Len(written') <= Len(written) + 1
       /\ Step("reabort") => aborts' <= aborts + 1
    )]_vars
====
